---------------------------- MODULE Spec2Model ----------------------------
(* EmailTracker: the page-resident agent of src/extension/content.js      *)
(* (surface scanner, toggle, send interceptor) and the marker service of  *)
(* src/backend/server.js and src/backend/api/server.js (issuance and      *)
(* recording), as one state machine.                                      *)
(*                                                                        *)
(* Strings that the code builds by concatenation are sequences of string  *)
(* tokens, so "embeds" and "is a prefix of" are properties of sequences.  *)
(* A click that the interceptor halts (stopPropagation/preventDefault in  *)
(* the capturing phase) does not reach the host's own send handling; one  *)
(* that it lets through, or that finds no listener, does.                 *)
EXTENDS Integers, Sequences, FiniteSets, TLC

\* ----------------------------------------------------------------- bounds
MaxClicks == 2
MaxIssue == 2
MaxFetch == 2

Surfaces == {"s1", "s2"}
Ids == {"id1", "id2"}
Rands == {"k3j9x0q2z"}
Absent == "absent"
UnknownId == "test-tracking-id-12345"
UserAgents == {"GoogleImageProxy"}

\* A compose surface as the host opens it: the explicit To field, the
\* subject field, and the editable body region with its content.
Drafts ==
  { [to |-> "a@b.com", subject |-> "hi", hasBody |-> TRUE, body |-> <<"hello">>],
    [to |-> Absent, subject |-> Absent, hasBody |-> FALSE, body |-> <<>>] }

VARIABLES
  rev,      \* which revision of the service is deployed: "main" | "api"
  db,       \* the Email collection, in insertion order
  clock,    \* the service's Date.now()
  replies,  \* the issuance exchanges of direct API clients: request, uuid,
            \* save outcome, response (the extension's is held in acts)
  fetches,  \* the recording requests, each with its handler's position
  surf,     \* per compose surface: host DOM and what the agent attached
  acts,     \* the invocations of handleSendClick, each with its position
  clicks    \* user activations of a send control so far

vars == <<rev, db, clock, replies, fetches, surf, acts, clicks>>

\* ------------------------------------------------------------ the service
IsPrefix(p, q) == Len(p) <= Len(q) /\ SubSeq(q, 1, Len(p)) = p

HasId(store, tid) == \E i \in 1..Len(store) : store[i].trackingId = tid

\* Email.findOne({ trackingId }): the first matching document's index, or 0.
FindOne(store, tid) ==
  IF HasId(store, tid)
  THEN CHOOSE i \in 1..Len(store) :
         /\ store[i].trackingId = tid
         /\ \A j \in 1..(i - 1) : store[j].trackingId # tid
  ELSE 0

BaseUrl == "http://localhost:3000"
ApiBaseUrl == "https://email-tracker-brown.vercel.app"

PixelUrl(revision, tid, t, rnd) ==
  IF revision = "main"
  THEN <<BaseUrl, "/track/", tid, ".png", "?t=", ToString(t), "&r=", rnd>>
  ELSE <<ApiBaseUrl, "/track/", tid, ".png">>

PixelHtml(revision, url) ==
  IF revision = "main"
  THEN <<"<img src=\"">> \o url
         \o <<"\" width=\"1\" height=\"1\" border=\"0\" alt=\"\" style=\"display:none !important; opacity:0 !important; width:0 !important; height:0 !important;\">">>
  ELSE <<"<img src=\"">> \o url
         \o <<"\" width=\"1\" height=\"1\" border=\"0\" alt=\"\">">>

JsonResp(status, data) == [status |-> status, kind |-> "json", data |-> data]
TextResp(status, text) == [status |-> status, kind |-> "text", data |-> [text |-> text]]
NoResp == [status |-> 0, kind |-> "none", data |-> [text |-> ""]]
HasField(r, f) == r.kind = "json" /\ f \in DOMAIN r.data

Resp400(revision) ==
  IF revision = "main"
  THEN JsonResp(400, [error |-> "Missing userId"])
  ELSE TextResp(400, "Missing userId")

Resp500(revision) ==
  IF revision = "main"
  THEN JsonResp(500, [error |-> "Server Error", details |-> "save failed"])
  ELSE TextResp(500, "Server Error")

Resp200(revision, tid, t, rnd) ==
  LET url == PixelUrl(revision, tid, t, rnd)
      html == PixelHtml(revision, url)
  IN IF revision = "main"
     THEN JsonResp(200, [pixelHtml |-> html, trackingId |-> tid, pixelUrl |-> url,
                         message |-> "Tracking pixel generated successfully"])
     ELSE JsonResp(200, [pixelHtml |-> html])

\* if (!userId): the field is missing or empty.
MissingUserId(body) == body.userId = Absent \/ body.userId = ""

\* new Email({ trackingId, userId, recipient, subject }): createdAt and opens
\* take the schema's defaults.
NewEmail(tid, body, t) ==
  [trackingId |-> tid, userId |-> body.userId, recipient |-> body.recipient,
   subject |-> body.subject, createdAt |-> t, opens |-> <<>>]

\* newEmail.save(): throws on a persistence failure and on a duplicate key of
\* the unique index on trackingId; inserts one document otherwise.
SaveThrows(store, doc, saveOk) == ~saveOk \/ HasId(store, doc.trackingId)


\* Variant: the userId check is dropped, so the schema's required userId
\* makes save() throw instead.
PostTrackNoCheck(revision, store, body, tid, saveOk, t, rnd) ==
  LET doc == NewEmail(tid, body, t)
  IN IF MissingUserId(body) \/ SaveThrows(store, doc, saveOk)
     THEN [db |-> store, resp |-> Resp500(revision)]
     ELSE [db |-> Append(store, doc), resp |-> Resp200(revision, tid, t, rnd)]

\* Variant: the markup is answered without waiting for save().
PostTrackRespondsAnyway(revision, store, body, tid, saveOk, t, rnd) ==
  IF MissingUserId(body)
  THEN [db |-> store, resp |-> Resp400(revision)]
  ELSE LET doc == NewEmail(tid, body, t)
       IN IF SaveThrows(store, doc, saveOk)
          THEN [db |-> store, resp |-> Resp200(revision, tid, t, rnd)]
          ELSE [db |-> Append(store, doc), resp |-> Resp200(revision, tid, t, rnd)]

\* app.post('/api/v1/track'): tid is what uuidv4() returns, saveOk whether
\* the persistence layer accepts the write, t the clock, rnd Math.random().
PostTrack(revision, store, body, tid, saveOk, t, rnd) ==
  IF MissingUserId(body)
  THEN [db |-> store, resp |-> Resp400(revision)]
  ELSE LET doc == NewEmail(tid, body, t)
       IN IF SaveThrows(store, doc, saveOk)
          THEN [db |-> store, resp |-> Resp500(revision)]
          ELSE [db |-> Append(store, doc), resp |-> Resp200(revision, tid, t, rnd)]

\* The open event the recording handler pushes: the main revision resolves
\* the headers with fallbacks and stamps the event itself; the api revision
\* pushes { ipAddress, userAgent } and the schema's default stamps it.
OpenEvent(revision, ua, t) ==
  IF revision = "main"
  THEN [timestamp |-> t, ipAddress |-> "10.0.0.1",
        userAgent |-> IF ua = Absent THEN "unknown" ELSE ua, referer |-> "direct"]
  ELSE [timestamp |-> t, ipAddress |-> "10.0.0.1", userAgent |-> ua]


\* Variant: a read-modify-write that puts the event first ($position: 0).
UpdateOnePrepend(store, tid, ev) ==
  LET i == FindOne(store, tid)
  IN IF i = 0
     THEN [db |-> store, modifiedCount |-> 0]
     ELSE [db |-> [store EXCEPT ![i].opens = <<ev>> \o @], modifiedCount |-> 1]

\* Variant: the update is applied to the first document whatever its id.
UpdateOneFirstDoc(store, tid, ev) ==
  IF FindOne(store, tid) = 0
  THEN [db |-> store, modifiedCount |-> 0]
  ELSE [db |-> [store EXCEPT ![1].opens = Append(@, ev)], modifiedCount |-> 1]

\* Variant: $set in place of $push.
UpdateOneOverwrite(store, tid, ev) ==
  LET i == FindOne(store, tid)
  IN IF i = 0
     THEN [db |-> store, modifiedCount |-> 0]
     ELSE [db |-> [store EXCEPT ![i].opens = <<ev>>], modifiedCount |-> 1]

\* Email.updateOne({ trackingId }, { $push: { opens: ev } }): one atomic
\* update of the first matching document, none when nothing matches.
UpdateOne(store, tid, ev) ==
  LET i == FindOne(store, tid)
  IN IF i = 0
     THEN [db |-> store, modifiedCount |-> 0]
     ELSE [db |-> [store EXCEPT ![i].opens = Append(@, ev)], modifiedCount |-> 1]

\* The fixed image: the base64 literal of both revisions, sent by the
\* finally block with status 200 and Content-Type image/gif.
PixelPayload == "R0lGODlhAQABAIAAAAAAAP///yH5BAEAAAAALAAAAAABAAEAAAIBRAA7"
PixelResp == [status |-> 200, contentType |-> "image/gif", payload |-> PixelPayload]
NoPixelResp == [status |-> 0, contentType |-> "", payload |-> ""]


\* Variant: the error is answered from the catch block.
TrackFinallyOnError(threw) ==
  IF threw THEN [status |-> 500, contentType |-> "text/plain", payload |-> "Server Error"]
  ELSE PixelResp

\* The finally block of app.get('/track/:trackingId.png'): what is sent,
\* given whether the try block threw.
TrackFinally(threw) == PixelResp

\* The handler's first persistence call: findOne in the main revision,
\* updateOne directly in the api revision.
TrackEntry(revision) == IF revision = "main" THEN "findOne" ELSE "updateOne"

\* After findOne: a miss is logged and skips the update.
AfterFindOne(store, tid) == IF FindOne(store, tid) = 0 THEN "finally" ELSE "updateOne"

\* One issuance exchange: the request body, what uuidv4() returned and
\* whether the persistence layer accepted the write (neither is reached
\* when userId is missing), and the response sent.
Exchange(body, tid, saveOk, resp) ==
  [req |-> body, tid |-> IF MissingUserId(body) THEN Absent ELSE tid,
   saveOk |-> MissingUserId(body) \/ saveOk, resp |-> resp]

\* POST /api/v1/track from any client of the service.
PostTrackReq(body, tid, saveOk, rnd) ==
  /\ Len(replies) < MaxIssue
  /\ LET r == PostTrack(rev, db, body, tid, saveOk, clock, rnd)
     IN /\ db' = r.db
        /\ replies' = Append(replies, Exchange(body, tid, saveOk, r.resp))
        /\ clock' = IF r.db = db THEN clock ELSE clock + 1
  /\ UNCHANGED <<rev, fetches, surf, acts, clicks>>

\* GET /track/<tid>.png arrives: the handler reads the id and the headers.
\* A client fetches a marker that was issued, or an id that is no uuid.
TrackArrive(tid, ua) ==
  /\ Len(fetches) < MaxFetch
  /\ tid = UnknownId \/ HasId(db, tid)
  /\ fetches' = Append(fetches, [id |-> tid, ua |-> ua, pc |-> TrackEntry(rev),
                                 threw |-> FALSE, modified |-> 0, resp |-> NoPixelResp])
  /\ UNCHANGED <<rev, db, clock, replies, surf, acts, clicks>>

\* await Email.findOne({ trackingId }) (main revision, line 125).
TrackFindOne(i, ok) ==
  /\ i \in 1..Len(fetches)
  /\ fetches[i].pc = "findOne"
  /\ fetches' = [fetches EXCEPT ![i].pc = IF ok THEN AfterFindOne(db, fetches[i].id)
                                               ELSE "finally",
                                ![i].threw = ~ok]
  /\ UNCHANGED <<rev, db, clock, replies, surf, acts, clicks>>

\* await Email.updateOne(..., { $push: ... }).
TrackUpdateOne(i, ok) ==
  /\ i \in 1..Len(fetches)
  /\ fetches[i].pc = "updateOne"
  /\ LET u == UpdateOne(db, fetches[i].id, OpenEvent(rev, fetches[i].ua, clock))
     IN IF ok
        THEN /\ db' = u.db
             /\ fetches' = [fetches EXCEPT ![i].pc = "finally",
                                           ![i].modified = u.modifiedCount]
        ELSE /\ db' = db
             /\ fetches' = [fetches EXCEPT ![i].pc = "finally", ![i].threw = TRUE]
  /\ clock' = IF db' = db THEN clock ELSE clock + 1
  /\ UNCHANGED <<rev, replies, surf, acts, clicks>>

\* finally { res.writeHead(200, ...); res.end(pixel) }.
TrackRespond(i) ==
  /\ i \in 1..Len(fetches)
  /\ fetches[i].pc = "finally"
  /\ fetches' = [fetches EXCEPT ![i].pc = "done",
                                ![i].resp = TrackFinally(fetches[i].threw)]
  /\ UNCHANGED <<rev, db, clock, replies, surf, acts, clicks>>

IssueBodies ==
  { [userId |-> "u1", recipient |-> "a@b.com", subject |-> "hi"],
    [userId |-> Absent, recipient |-> "a@b.com", subject |-> "hi"] }

Init ==
  /\ rev \in {"main", "api"}
  /\ db = <<>>
  /\ clock = 1
  /\ replies = <<>>
  /\ fetches = <<>>
  /\ surf = [s \in Surfaces |->
              [dialog |-> "absent", to |-> Absent, subject |-> Absent,
               hasBody |-> FALSE, body |-> <<>>, toggles |-> 0, attr |-> "none",
               listeners |-> 0, sends |-> 0]]
  /\ acts = <<>>
  /\ clicks = 0

ServiceNext ==
  \/ \E body \in IssueBodies, tid \in Ids, saveOk \in BOOLEAN, rnd \in Rands :
       PostTrackReq(body, tid, saveOk, rnd)
  \/ \E tid \in Ids \cup {UnknownId}, ua \in UserAgents : TrackArrive(tid, ua)
  \/ \E i \in 1..MaxFetch, ok \in BOOLEAN : TrackFindOne(i, ok)
  \/ \E i \in 1..MaxFetch, ok \in BOOLEAN : TrackUpdateOne(i, ok)
  \/ \E i \in 1..MaxFetch : TrackRespond(i)

ServiceSpec == Init /\ [][ServiceNext]_vars

\* ---------------------------------------------------------- the extension
RECURSIVE HandleSendClick(_, _, _)
RECURSIVE Dispatch(_, _, _, _)

\* findSendButton(composeView): the fallback chain finds the send control
\* when the surface holds one.
FindSendButton(v) == v.dialog = "ready"

\* getRecipient(composeView): the explicit field, else the placeholder.
GetRecipient(v) == IF v.to # Absent THEN v.to ELSE "unknown@recipient.com"

GetSubject(v) == IF v.subject # Absent THEN v.subject ELSE "(No Subject)"


\* Variant: no guard on an existing toggle.
SetupTrackingNoGuard(v) ==
  IF ~FindSendButton(v) THEN v
  ELSE [v EXCEPT !.toggles = @ + 1, !.attr = "true", !.listeners = @ + 1]

\* Variant: the guard looks at the listener instead of the toggle.
SetupTrackingReattach(v) ==
  IF ~FindSendButton(v) THEN v
  ELSE IF v.toggles = 0
       THEN [v EXCEPT !.toggles = @ + 1, !.attr = "true", !.listeners = @ + 1]
       ELSE IF v.listeners = 0 THEN [v EXCEPT !.listeners = 1] ELSE v

\* Variant: an existing toggle is put back to enabled on every pass.
SetupTrackingResets(v) ==
  IF ~FindSendButton(v) THEN v
  ELSE IF v.toggles > 0 THEN [v EXCEPT !.attr = "true"]
       ELSE [v EXCEPT !.toggles = @ + 1, !.attr = "true", !.listeners = @ + 1]

\* setupTracking(composeView): the guard, then one toggle (enabled) before
\* the send control and one capturing listener on it.
SetupTracking(v) ==
  IF v.toggles > 0 THEN v
  ELSE IF ~FindSendButton(v) THEN v
  ELSE [v EXCEPT !.toggles = @ + 1, !.attr = "true", !.listeners = @ + 1]

\* trackButton.onclick: flips data-tracking-enabled.
TrackButtonFlip(v) == [v EXCEPT !.attr = IF @ = "true" THEN "false" ELSE "true"]

\* The host's own send action fires for a click on the send control of s;
\* by is the handleSendClick invocation whose click it was (0: the user's).
Native(w, s, by) ==
  LET w1 == [w EXCEPT !.surf[s].sends = @ + 1]
  IN IF by = 0 THEN w1 ELSE [w1 EXCEPT !.acts[by].trace = Append(@, "native")]

\* sendButton.removeEventListener('click', handleSendClick, true).
RemoveListener(v) == [v EXCEPT !.listeners = IF @ > 0 THEN @ - 1 ELSE 0]

\* Lines 103-104 and 139-142: detach the listener, then sendButton.click(),
\* which dispatches synchronously.
DetachAndClick(w, a) ==
  LET s == w.acts[a].surface
      w1 == [w EXCEPT !.surf[s] = RemoveListener(@),
                      !.acts[a].trace = @ \o <<"detach", "click">>,
                      !.acts[a].phase = "done"]
  IN Dispatch(w1, s, TRUE, a)


\* Variant: the missing body ends the handler without sending.
NoBodyPathBlocked(w, a) == [w EXCEPT !.acts[a].phase = "done"]

\* if (!bodyDiv) { ...; removeEventListener; sendButton.click(); return; }
NoBodyPath(w, a) == DetachAndClick(w, a)

\* Variant: step 4 clicks without removing the listener first.
ResendNoDetach(w, a) ==
  LET s == w.acts[a].surface
      w1 == [w EXCEPT !.acts[a].trace = Append(@, "click"),
                      !.acts[a].phase = "done"]
  IN Dispatch(w1, s, TRUE, a)

\* Step 4 of handleSendClick, after the try/catch.
Resend(w, a) == DetachAndClick(w, a)

NewAct(s, prog, v) ==
  [surface |-> s, prog |-> prog, halted |-> FALSE, bodyFound |-> v.hasBody,
   phase |-> "done", outcome |-> "disabled", trace |-> <<>>, resp |-> NoResp,
   req |-> [userId |-> "test-user-123", recipient |-> GetRecipient(v),
            subject |-> GetSubject(v)]]


\* Variant: the toggle is not consulted.
TrackingAlwaysOn(v) == TRUE

\* Whether the handler goes on to halt the event (line 75's check).
TrackingEnabled(v) == v.attr = "true"

\* handleSendClick(e) up to its first await.
HandleSendClick(w, s, prog) ==
  LET v == w.surf[s]
      a == Len(w.acts) + 1
      w0 == [w EXCEPT !.acts = Append(@, NewAct(s, prog, v))]
  IN IF ~TrackingEnabled(v)
     THEN Native(w0, s, a)
     ELSE IF ~v.hasBody
          THEN NoBodyPath([w0 EXCEPT !.acts[a].halted = TRUE,
                                     !.acts[a].outcome = "nobody"], a)
          ELSE [w0 EXCEPT !.acts[a].halted = TRUE,
                          !.acts[a].outcome = "pending",
                          !.acts[a].phase = "awaiting",
                          !.acts[a].trace = <<"request">>]

\* A click event on the send control of s: the capturing listener runs
\* first when attached; with none the host handles the click.
Dispatch(w, s, prog, by) ==
  IF w.surf[s].listeners = 0
  THEN Native(w, s, by)
  ELSE HandleSendClick(w, s, prog)


\* Variant: innerHTML = in place of innerHTML +=.
AfterResponseOverwrite(w, a) ==
  LET s == w.acts[a].surface
      r == w.acts[a].resp
  IN IF r.kind # "json"
     THEN Resend([w EXCEPT !.acts[a].outcome = "badjson"], a)
     ELSE IF ~HasField(r, "pixelHtml")
          THEN Resend([w EXCEPT !.acts[a].outcome = "nomarkup"], a)
          ELSE [w EXCEPT !.surf[s].body = r.data.pixelHtml,
                         !.acts[a].trace = Append(@, "mutate"),
                         !.acts[a].outcome = "spliced",
                         !.acts[a].phase = "yield"]

\* Variant: no try/catch, so a response.json() that throws ends the handler.
AfterResponseUncaught(w, a) ==
  LET s == w.acts[a].surface
      r == w.acts[a].resp
  IN IF r.kind # "json"
     THEN [w EXCEPT !.acts[a].outcome = "badjson", !.acts[a].phase = "done"]
     ELSE IF ~HasField(r, "pixelHtml")
          THEN Resend([w EXCEPT !.acts[a].outcome = "nomarkup"], a)
          ELSE [w EXCEPT !.surf[s].body = @ \o r.data.pixelHtml,
                         !.acts[a].trace = Append(@, "mutate"),
                         !.acts[a].outcome = "spliced",
                         !.acts[a].phase = "yield"]

\* Lines 120-131: response.json(), then the splice when pixelHtml is there.
AfterResponse(w, a) ==
  LET s == w.acts[a].surface
      r == w.acts[a].resp
  IN IF r.kind # "json"
     THEN Resend([w EXCEPT !.acts[a].outcome = "badjson"], a)
     ELSE IF ~HasField(r, "pixelHtml")
          THEN Resend([w EXCEPT !.acts[a].outcome = "nomarkup"], a)
          ELSE [w EXCEPT !.surf[s].body = @ \o r.data.pixelHtml,
                         !.acts[a].trace = Append(@, "mutate"),
                         !.acts[a].outcome = "spliced",
                         !.acts[a].phase = "yield"]

World == [surf |-> surf, acts |-> acts]

\* The host opens a compose dialog, with or without its send control yet.
HostOpenCompose(s, d, withSend) ==
  /\ surf[s].dialog = "absent"
  /\ surf' = [surf EXCEPT ![s].dialog = IF withSend THEN "ready" ELSE "nosend",
                          ![s].to = d.to, ![s].subject = d.subject,
                          ![s].hasBody = d.hasBody, ![s].body = d.body]
  /\ UNCHANGED <<rev, db, clock, replies, fetches, acts, clicks>>

HostRenderSend(s) ==
  /\ surf[s].dialog = "nosend"
  /\ surf' = [surf EXCEPT ![s].dialog = "ready"]
  /\ UNCHANGED <<rev, db, clock, replies, fetches, acts, clicks>>

\* The setInterval callback: every dialog with a send control is set up.
Tick ==
  /\ surf' = [s \in Surfaces |->
               IF FindSendButton(surf[s]) THEN SetupTracking(surf[s]) ELSE surf[s]]
  /\ UNCHANGED <<rev, db, clock, replies, fetches, acts, clicks>>

\* The user clicks the toggle of s.
TrackButtonOnClick(s) ==
  /\ surf[s].toggles > 0
  /\ surf' = [surf EXCEPT ![s] = TrackButtonFlip(@)]
  /\ UNCHANGED <<rev, db, clock, replies, fetches, acts, clicks>>

\* The user activates the send control of s.
UserClickSend(s) ==
  /\ surf[s].dialog = "ready"
  /\ clicks < MaxClicks
  /\ clicks' = clicks + 1
  /\ LET w == Dispatch(World, s, FALSE, 0)
     IN surf' = w.surf /\ acts' = w.acts
  /\ UNCHANGED <<rev, db, clock, replies, fetches>>

\* The service handles the issuance request of invocation a.
ServiceHandle(a, tid, saveOk, rnd) ==
  /\ a \in 1..Len(acts)
  /\ acts[a].phase = "awaiting"
  /\ LET r == PostTrack(rev, db, acts[a].req, tid, saveOk, clock, rnd)
     IN /\ db' = r.db
        /\ clock' = IF r.db = db THEN clock ELSE clock + 1
        /\ acts' = [acts EXCEPT ![a].resp = r.resp, ![a].phase = "responded"]
  /\ UNCHANGED <<rev, replies, fetches, surf, clicks>>

\* The fetch promise resolves and the handler continues.
ClientReceive(a) ==
  /\ a \in 1..Len(acts)
  /\ acts[a].phase = "responded"
  /\ LET w == AfterResponse(World, a)
     IN surf' = w.surf /\ acts' = w.acts
  /\ UNCHANGED <<rev, db, clock, replies, fetches, clicks>>

\* The fetch promise rejects (network error): the catch block, then step 4.
NetFail(a) ==
  /\ a \in 1..Len(acts)
  /\ acts[a].phase \in {"awaiting", "responded"}
  /\ LET w == Resend([World EXCEPT !.acts[a].outcome = "neterr",
                                   !.acts[a].resp = NoResp], a)
     IN surf' = w.surf /\ acts' = w.acts
  /\ UNCHANGED <<rev, db, clock, replies, fetches, clicks>>

\* The service accepts the request and never answers: fetch has no timeout
\* and no abort signal, so its promise stays pending.
ServiceNeverAnswers(a) ==
  /\ a \in 1..Len(acts)
  /\ acts[a].phase = "awaiting"
  /\ acts' = [acts EXCEPT ![a].phase = "hung"]
  /\ UNCHANGED <<rev, db, clock, replies, fetches, surf, clicks>>

\* The 100 ms timer after the splice fires: step 4.
TimerFire(a) ==
  /\ a \in 1..Len(acts)
  /\ acts[a].phase = "yield"
  /\ LET w == Resend(World, a)
     IN surf' = w.surf /\ acts' = w.acts
  /\ UNCHANGED <<rev, db, clock, replies, fetches, clicks>>

Next ==
  \/ \E s \in Surfaces, d \in Drafts, withSend \in BOOLEAN : HostOpenCompose(s, d, withSend)
  \/ \E s \in Surfaces : HostRenderSend(s)
  \/ Tick
  \/ \E s \in Surfaces : TrackButtonOnClick(s)
  \/ \E s \in Surfaces : UserClickSend(s)
  \/ \E a \in 1..MaxClicks, tid \in Ids, saveOk \in BOOLEAN, rnd \in Rands :
       ServiceHandle(a, tid, saveOk, rnd)
  \/ \E a \in 1..MaxClicks : ClientReceive(a)
  \/ \E a \in 1..MaxClicks : NetFail(a)
  \/ \E a \in 1..MaxClicks : ServiceNeverAnswers(a)
  \/ \E a \in 1..MaxClicks : TimerFire(a)

Spec == Init /\ [][Next]_vars

\* The event loop runs every continuation that is ready, and every request
\* in flight is settled one way or another: answered, failed, or left
\* unanswered for good.
Fairness ==
  \A a \in 1..MaxClicks :
    /\ WF_vars(\E tid \in Ids, saveOk \in BOOLEAN, rnd \in Rands :
                 ServiceHandle(a, tid, saveOk, rnd))
    /\ WF_vars(ClientReceive(a))
    /\ WF_vars(TimerFire(a))

LiveSpec == Spec /\ Fairness

\* ------------------------------------------------------------- properties
Count(tr, e) == Cardinality({k \in 1..Len(tr) : tr[k] = e})

\* Every other invocation is left as it was.
OthersUnchanged(a) ==
  /\ Len(acts') = IF a <= Len(acts) THEN Len(acts) ELSE a
  /\ \A b \in 1..Len(acts) : b # a => acts'[b] = acts[b]

ServiceUntouched == db' = db /\ replies' = replies /\ fetches' = fetches

Is2xx(r) == r.status >= 200 /\ r.status <= 299

\* The trace of an invocation whose response carries pixelHtml, by phase;
\* the step that splices; the step that re-fires the send.
C1_Order ==
  \A a \in 1..Len(acts) :
    (acts[a].halted /\ acts[a].bodyFound /\ HasField(acts[a].resp, "pixelHtml")) =>
      \/ acts[a].phase = "responded" /\ acts[a].trace = <<"request">>
      \/ acts[a].phase = "yield" /\ acts[a].trace = <<"request", "mutate">>
      \/ acts[a].phase = "done"
           /\ acts[a].trace = <<"request", "mutate", "detach", "click", "native">>

C1_SpliceStep ==
  \A a \in 1..Len(acts) :
    (acts[a].phase = "responded" /\ HasField(acts[a].resp, "pixelHtml")
       /\ a <= Len(acts') /\ acts'[a].phase # "responded"
       /\ acts'[a].resp = acts[a].resp) =>
      LET s == acts[a].surface
      IN /\ acts'[a].phase = "yield"
         /\ surf'[s].body = surf[s].body \o acts[a].resp.data.pixelHtml
         /\ IsPrefix(surf[s].body, surf'[s].body)
         /\ Len(surf'[s].body) > Len(surf[s].body)
         /\ surf'[s].sends = surf[s].sends
         /\ ServiceUntouched

C1_SendStep ==
  \A a \in 1..Len(acts) :
    (acts[a].phase = "yield" /\ a <= Len(acts') /\ acts'[a].phase # "yield") =>
      LET s == acts[a].surface
      IN /\ acts'[a].phase = "done"
         /\ surf'[s].body = surf[s].body
         /\ surf'[s].sends = surf[s].sends + 1
         /\ OthersUnchanged(a)
         /\ ServiceUntouched

\* C1: a send activation with the toggle enabled, a body region and a
\* response carrying pixelHtml sends one issuance request, then splices once
\* (the new body is the old one with the markup appended), then invokes the
\* native send once; the native send never comes before the splice.
C1_InterceptedSend == []C1_Order /\ [][C1_SpliceStep /\ C1_SendStep]_vars

C1_Witness ==
  \E a \in 1..Len(acts) :
    /\ acts[a].phase = "done" /\ HasField(acts[a].resp, "pixelHtml")
    /\ Count(acts[a].trace, "mutate") = 1
    /\ surf[acts[a].surface].sends >= 1
    /\ Len(surf[acts[a].surface].body) > 1

\* A user click on a surface whose listener is attached and whose toggle
\* reads false.
C2_DisabledStep ==
  \A s \in Surfaces :
    (clicks' = clicks + 1 /\ Len(acts') > Len(acts)
       /\ acts'[Len(acts) + 1].surface = s
       /\ surf[s].listeners > 0 /\ surf[s].attr = "false") =>
      LET a == Len(acts) + 1
      IN /\ ~acts'[a].halted
         /\ acts'[a].trace = <<"native">>
         /\ acts'[a].phase = "done"
         /\ OthersUnchanged(a)
         /\ ServiceUntouched
         /\ surf'[s] = [surf[s] EXCEPT !.sends = @ + 1]
         /\ \A t \in Surfaces : t # s => surf'[t] = surf[t]

\* C2: a send activation on a surface whose toggle is disabled at the click
\* issues no request, halts nothing, leaves the body and the listener as
\* they are, invokes no send itself, and exactly the host's send fires.
C2_DisabledPassThrough == [][C2_DisabledStep]_vars

C2_Witness ==
  \E a \in 1..Len(acts) :
    /\ ~acts[a].halted /\ ~acts[a].prog
    /\ surf[acts[a].surface].attr = "false"
    /\ surf[acts[a].surface].listeners = 1
    /\ surf[acts[a].surface].sends >= 1

\* A user click on a surface whose toggle reads true and that has no body
\* region; what such an invocation looks like ever after.
C3_NoBodyStep ==
  \A s \in Surfaces :
    (clicks' = clicks + 1 /\ Len(acts') > Len(acts)
       /\ acts'[Len(acts) + 1].surface = s
       /\ surf[s].attr = "true" /\ ~surf[s].hasBody) =>
      LET a == Len(acts) + 1
      IN /\ acts'[a].halted
         /\ acts'[a].trace = <<"detach", "click", "native">>
         /\ acts'[a].phase = "done"
         /\ OthersUnchanged(a)
         /\ ServiceUntouched
         /\ surf'[s] = [surf[s] EXCEPT !.sends = @ + 1, !.listeners = 0]

C3_NoBodyDone ==
  \A a \in 1..Len(acts) :
    (acts[a].halted /\ ~acts[a].bodyFound) =>
      /\ acts[a].phase = "done"
      /\ acts[a].trace = <<"detach", "click", "native">>
      /\ acts[a].resp = NoResp

\* C3: a send activation with the toggle enabled on a surface without a
\* body region sends no issuance request, leaves the body alone, detaches
\* the listener, and one native send follows.
C3_NoBodySendsAnyway == []C3_NoBodyDone /\ [][C3_NoBodyStep]_vars

C3_Witness ==
  \E a \in 1..Len(acts) :
    /\ acts[a].halted /\ ~acts[a].bodyFound /\ ~acts[a].prog
    /\ Count(acts[a].trace, "native") = 1
    /\ surf[acts[a].surface].listeners = 0

\* An invocation without a 2xx response carrying markup; the step in which
\* its request fails or its response is taken.
C4_NoSpliceWithoutMarkup ==
  \A a \in 1..Len(acts) :
    (~Is2xx(acts[a].resp) \/ ~HasField(acts[a].resp, "pixelHtml")) =>
      /\ Count(acts[a].trace, "mutate") = 0
      /\ Count(acts[a].trace, "request") <= 1
      /\ acts[a].phase # "yield"
      /\ (acts[a].phase = "done" /\ acts[a].bodyFound /\ acts[a].halted) =>
           acts[a].trace = <<"request", "detach", "click", "native">>

C4_FailStep ==
  \A a \in 1..Len(acts) :
    (acts[a].phase \in {"awaiting", "responded"} /\ a <= Len(acts')
       /\ acts'[a].phase \notin {"awaiting", "responded", "hung"}
       /\ (~Is2xx(acts'[a].resp) \/ ~HasField(acts'[a].resp, "pixelHtml"))) =>
      LET s == acts[a].surface
      IN /\ acts'[a].phase = "done"
         /\ surf'[s].body = surf[s].body
         /\ surf'[s].sends = surf[s].sends + 1
         /\ OthersUnchanged(a)
         /\ ServiceUntouched

\* C4: when the issuance request fails, is answered non-2xx, or is answered
\* without markup, the body stays as it is, one native send follows, and no
\* second issuance request is made for the activation.
C4_DegradesToPlainSend == []C4_NoSpliceWithoutMarkup /\ [][C4_FailStep]_vars

C4_Witness ==
  \E a, b \in 1..Len(acts) :
    /\ acts[a].phase = "done" /\ acts[a].outcome = "neterr"
    /\ acts[b].phase = "done" /\ acts[b].resp.status = 500
    /\ acts[a].trace = <<"request", "detach", "click", "native">>

\* C5: every send activation the interceptor halts is eventually followed
\* by a native send invocation, whatever the issuing service does.
C5_HaltedEventuallySent ==
  \A a \in 1..MaxClicks :
    [](a <= Len(acts) /\ acts[a].halted
         => <>(a <= Len(acts) /\ Count(acts[a].trace, "native") >= 1))

\* Companion to C5: a halted invocation is followed by a native send unless
\* its request is left unanswered for good.
C5_SentUnlessUnanswered ==
  \A a \in 1..MaxClicks :
    [](a <= Len(acts) /\ acts[a].halted
         => <>(a <= Len(acts)
                 /\ (Count(acts[a].trace, "native") >= 1 \/ acts[a].phase = "hung")))

\* Counts per surface; what a step may do to a surface that has its toggle.
C6_AtMostOne ==
  \A s \in Surfaces : surf[s].toggles <= 1 /\ surf[s].listeners <= 1

C6_ProcessedStep ==
  \A s \in Surfaces :
    surf[s].toggles > 0 =>
      /\ surf'[s].toggles = surf[s].toggles
      /\ surf'[s].listeners <= surf[s].listeners

\* C6: each compose surface has at most one toggle and at most one attached
\* listener, and a surface that has its toggle gains neither in any step.
C6_OneToggleOneListener == []C6_AtMostOne /\ [][C6_ProcessedStep]_vars

C6_Witness ==
  \E s \in Surfaces :
    /\ surf[s].toggles = 1 /\ surf[s].listeners = 1
    /\ surf[s].attr = "false" /\ surf[s].sends >= 1 /\ clicks = MaxClicks

\* The fetches of tid whose handler has run its persistence calls, and those
\* among them whose persistence calls all completed without throwing.
Handled(tid) ==
  {i \in 1..Len(fetches) : fetches[i].id = tid /\ fetches[i].pc \in {"finally", "done"}}

Recorded(tid) == {i \in Handled(tid) : ~fetches[i].threw}

AllHandled == \A i \in 1..Len(fetches) : fetches[i].pc \in {"finally", "done"}

\* C7, as stated: N recording fetches of a record's id append exactly N open
\* events to it (so none of them comes from a fetch of another id).
C7_EveryFetchAppends ==
  AllHandled =>
    \A k \in 1..Len(db) :
      Len(db[k].opens) = Cardinality(Handled(db[k].trackingId))

\* Per record, the events held against the fetches recorded; a step of a
\* fetch that misses or throws.
C7_Counts ==
  \A k \in 1..Len(db) :
    /\ Len(db[k].opens) = Cardinality(Recorded(db[k].trackingId))
    /\ \A e \in 1..Len(db[k].opens) : db[k].opens[e].timestamp \in 1..clock

C7_MissStep ==
  \A i \in 1..Len(fetches) :
    (fetches'[i] # fetches[i]
       /\ (~HasId(db, fetches[i].id) \/ fetches'[i].threw)) => db' = db

\* C7, amended: every recording fetch of a record's id whose persistence
\* calls complete without throwing appends exactly one open event, with a
\* timestamp, to that record; a fetch whose lookup or update throws, or whose
\* id matches no record, appends nothing to any record.
C7_OnePerRecordedFetch == []C7_Counts /\ [][C7_MissStep]_vars

C7_Witness ==
  \E k \in 1..Len(db) :
    /\ Len(db[k].opens) = 1
    /\ Cardinality(Handled(db[k].trackingId)) = 2
    /\ AllHandled

\* C8: every recording fetch is answered 200, image/gif, with the same fixed
\* payload, whether the id resolves, does not, or persistence throws.
C8_AlwaysThePixel ==
  \A i \in 1..Len(fetches) :
    fetches[i].pc = "done" =>
      /\ fetches[i].resp.status = 200
      /\ fetches[i].resp.contentType = "image/gif"
      /\ fetches[i].resp.payload = PixelPayload
      /\ \A j \in 1..Len(fetches) :
           fetches[j].pc = "done" => fetches[j].resp = fetches[i].resp

C8_Witness ==
  \E i, j \in 1..Len(fetches) :
    /\ fetches[i].pc = "done" /\ fetches[i].threw
    /\ fetches[j].pc = "done" /\ fetches[j].id = UnknownId /\ ~fetches[j].threw
    /\ Len(db) > 0

\* The step that sends an issuance response.
C9_Step ==
  Len(replies') = Len(replies) + 1 =>
    LET x == replies'[Len(replies')]
    IN /\ MissingUserId(x.req) =>
            x.resp.status = 400 /\ ~HasField(x.resp, "pixelHtml") /\ db' = db
       /\ (~MissingUserId(x.req) /\ (~x.saveOk \/ HasId(db, x.tid))) =>
            x.resp.status = 500 /\ ~HasField(x.resp, "pixelHtml") /\ db' = db

\* C9: an issuance request without userId is answered 400 and one whose
\* persistence write fails is answered 500 without markup; neither changes
\* the stored records.
C9_RejectsWithoutPersisting == [][C9_Step]_vars

C9_Witness ==
  \E i, j \in 1..Len(replies) :
    /\ replies[i].resp.status = 400
    /\ replies[j].resp.status = 500 /\ ~replies[j].saveOk

\* The markup's URL is keyed by tid: .../track/<tid>.png
Embeds(html, tid) ==
  \E k \in 1..(Len(html) - 2) :
    html[k] = "/track/" /\ html[k + 1] = tid /\ html[k + 2] = ".png"

\* The step that sends a 200 issuance response.
C10_Step ==
  (Len(replies') = Len(replies) + 1 /\ replies'[Len(replies')].resp.status = 200) =>
    LET r == replies'[Len(replies')].resp
    IN /\ Len(db') = Len(db) + 1
       /\ SubSeq(db', 1, Len(db)) = db
       /\ ~HasId(db, db'[Len(db')].trackingId)
       /\ db'[Len(db')].opens = <<>>
       /\ HasField(r, "pixelHtml")
       /\ Embeds(r.data.pixelHtml, db'[Len(db')].trackingId)
       /\ HasField(r, "trackingId")
       /\ r.data.trackingId = db'[Len(db')].trackingId

\* C10: every successful issuance persists exactly one new record, with a
\* trackingId no existing record has and empty opens, and its response
\* contains that trackingId and a pixelHtml whose URL embeds it.
C10_IssuanceResponse == [][C10_Step]_vars

\* The clicks an invocation has made so far (none before it exists).
ClicksOf(log, a) == IF a <= Len(log) THEN Count(log[a].trace, "click") ELSE 0

\* No invocation comes from a programmatic click, and every programmatic
\* click follows a detach and reaches the host.
C11_NoReentry ==
  \A a \in 1..Len(acts) :
    /\ ~acts[a].prog
    /\ \A k \in 1..Len(acts[a].trace) :
         acts[a].trace[k] = "click" =>
           /\ k > 1 /\ acts[a].trace[k - 1] = "detach"
           /\ k < Len(acts[a].trace) /\ acts[a].trace[k + 1] = "native"

\* The step in which an invocation clicks the send control.
C11_ClickStep ==
  \A a \in 1..Len(acts') :
    ClicksOf(acts', a) > ClicksOf(acts, a) =>
      LET s == acts'[a].surface
      IN /\ surf'[s].listeners = 0
         /\ OthersUnchanged(a)
         /\ ServiceUntouched
         /\ surf'[s].body = surf[s].body
         /\ surf'[s].sends = surf[s].sends + 1

\* C11: on every path that re-fires the send the listener is detached
\* before sendButton.click(), so the programmatic click never re-enters
\* handleSendClick: it causes no interception, request or body mutation.
C11_DetachBeforeClick == []C11_NoReentry /\ [][C11_ClickStep]_vars

C11_Witness ==
  \E a, b \in 1..Len(acts) :
    /\ acts[a].outcome = "spliced" /\ acts[a].phase = "done"
    /\ acts[b].outcome = "nobody" /\ acts[b].phase = "done"
    /\ ClicksOf(acts, a) = 1 /\ ClicksOf(acts, b) = 1

\* The interceptions of a surface that have halted the send and not yet
\* re-fired it.
InFlight(s) ==
  {a \in 1..Len(acts) :
     /\ acts[a].surface = s
     /\ acts[a].halted
     /\ acts[a].phase \in {"awaiting", "responded", "yield", "hung"}}

\* C12: at most one interception is in flight per surface; a second user
\* activation while the first awaits its response starts no second
\* interception, so overlapping activations never yield two issuance
\* requests, two body mutations or two sends.
C12_OneInFlight == \A s \in Surfaces : Cardinality(InFlight(s)) <= 1

\* No fetch that has been handled is missing from its record.
C13_NoEventLost ==
  AllHandled =>
    \A k \in 1..Len(db) :
      Len(db[k].opens) >= Cardinality(Handled(db[k].trackingId))

\* The fetches of an id that are between arrival and response.
InProgress(tid) ==
  {i \in 1..Len(fetches) : fetches[i].id = tid /\ fetches[i].pc # "done"}

\* Once every fetch is answered each record holds one event per recorded
\* fetch, and the events of a record are distinct and in the order written.
C13_Settled ==
  \A k \in 1..Len(db) :
    /\ AllHandled => Len(db[k].opens) = Cardinality(Recorded(db[k].trackingId))
    /\ \A e \in 1..Len(db[k].opens) :
         /\ db[k].opens[e].userAgent \in UserAgents \cup {"unknown"}
         /\ \A f \in 1..Len(db[k].opens) :
              e < f => db[k].opens[e].timestamp < db[k].opens[f].timestamp

\* A step of fetch i, whatever the other fetches in progress are doing: a
\* completed update appends its own event at the end of its record and
\* nothing else; any other step of a fetch changes no record; no fetch step
\* changes another fetch; issuance changes no record that exists.
C13_FetchStep ==
  /\ \A i \in 1..Len(fetches) :
       fetches'[i] # fetches[i] =>
         /\ \A j \in 1..Len(fetches) : j # i => fetches'[j] = fetches[j]
         /\ Len(db') = Len(db)
         /\ \A k \in 1..Len(db) :
              IF /\ db[k].trackingId = fetches[i].id
                 /\ fetches[i].pc = "updateOne"
                 /\ ~fetches'[i].threw
              THEN db'[k] = [db[k] EXCEPT
                               !.opens = Append(@, OpenEvent(rev, fetches[i].ua, clock))]
              ELSE db'[k] = db[k]
  /\ Len(db') > Len(db) =>
       /\ fetches' = fetches
       /\ \A k \in 1..Len(db) : db'[k] = db[k]

\* C13, amended: interleaved recording fetches of one marker lose and
\* corrupt no event of a fetch whose persistence calls complete without
\* throwing; once all are answered the record holds exactly one event per
\* such fetch, and a fetch interleaved with issuance or with fetches of
\* other ids changes no other record.
C13_InterleavedFetches == []C13_Settled /\ [][C13_FetchStep]_vars

C13_Witness ==
  \E k \in 1..Len(db) :
    \E i, j \in InProgress(db[k].trackingId) :
      /\ i < j
      /\ fetches[i].pc = "updateOne"
      /\ fetches[j].pc = "finally" /\ fetches[j].modified = 1
      /\ Len(db[k].opens) = 1

\* Every record that exists keeps its place and its identity fields, and its
\* opens is a prefix of what it holds after the step.
C14_RecordsKept ==
  /\ Len(db') >= Len(db)
  /\ \A k \in 1..Len(db) :
       /\ db'[k].trackingId = db[k].trackingId
       /\ db'[k].userId = db[k].userId
       /\ db'[k].recipient = db[k].recipient
       /\ db'[k].subject = db[k].subject
       /\ db'[k].createdAt = db[k].createdAt
       /\ IsPrefix(db[k].opens, db'[k].opens)

\* A step of a fetch for id X leaves every record of another id as it was.
C14_OnlyItsRecord ==
  \A i \in 1..Len(fetches) :
    fetches'[i] # fetches[i] =>
      \A k \in 1..Len(db) :
        db[k].trackingId # fetches[i].id => db'[k] = db[k]

\* C14: records are append-only: none is ever deleted, trackingId, userId,
\* recipient, subject and createdAt never change, opens only grows at its
\* end, and a recording fetch for id X modifies only the record of X.
C14_AppendOnly == [][C14_RecordsKept /\ C14_OnlyItsRecord]_vars

C14_Witness ==
  /\ Len(db) = 2
  /\ Len(db[1].opens) = 1
  /\ Len(db[2].opens) = 1
  /\ db[1].createdAt < db[2].createdAt

\* A surface whose listener handleSendClick has removed: it carries its
\* toggle and no listener.
Done(s) == surf[s].toggles > 0 /\ surf[s].listeners = 0

\* A surface is Done only by a detach of one of its own interceptions.
C15_DoneByDetach ==
  \A s \in Surfaces :
    Done(s) => \E a \in 1..Len(acts) :
                 acts[a].surface = s /\ Count(acts[a].trace, "detach") > 0

\* Done is kept by every step; a listener is attached only to a surface
\* without a toggle; a send activation on a Done surface reaches the host
\* and nothing else happens.
C15_DoneStep ==
  \A s \in Surfaces :
    /\ Done(s) => /\ surf'[s].listeners = 0
                  /\ surf'[s].toggles = surf[s].toggles
    /\ surf'[s].listeners > surf[s].listeners => surf[s].toggles = 0
    /\ (Done(s) /\ UserClickSend(s)) =>
         /\ surf' = [surf EXCEPT ![s].sends = @ + 1]
         /\ acts' = acts
         /\ ServiceUntouched

\* C15: Done is terminal: once handleSendClick has detached its listener no
\* later tick attaches one while the surface carries its toggle, a later
\* send activation goes to the host unintercepted with no issuance
\* request, and interception resumes only for a surface without a toggle.
C15_DoneIsTerminal == []C15_DoneByDetach /\ [][C15_DoneStep]_vars

C15_Witness ==
  \E s \in Surfaces :
    /\ Done(s)
    /\ clicks = 2
    /\ surf[s].sends = 2
    /\ Len(acts) = 1
    /\ acts[1].surface = s /\ acts[1].outcome = "spliced"

\* A surface without a toggle has no flag; a toggle's flag is one of two
\* values, and two clicks on it give back the value it had.
C16_TwoValues ==
  \A s \in Surfaces :
    IF surf[s].toggles = 0
    THEN surf[s].attr = "none"
    ELSE /\ surf[s].attr \in {"true", "false"}
         /\ TrackButtonFlip(surf[s]).attr \in {"true", "false"} \ {surf[s].attr}
         /\ TrackButtonFlip(TrackButtonFlip(surf[s])) = surf[s]

\* A new toggle is enabled; a click on the toggle of s flips the flag of s
\* and no other; every other step leaves every flag as it was.
C16_FlagStep ==
  /\ \A s \in Surfaces :
       (surf[s].toggles = 0 /\ surf'[s].toggles > 0) => surf'[s].attr = "true"
  /\ \A s \in Surfaces :
       TrackButtonOnClick(s) =>
         /\ surf'[s].attr # surf[s].attr
         /\ \A t \in Surfaces \ {s} : surf'[t].attr = surf[t].attr
  /\ (\A s \in Surfaces : ~TrackButtonOnClick(s)) =>
       \A t \in Surfaces : surf[t].toggles > 0 => surf'[t].attr = surf[t].attr

\* C16: the toggle starts enabled and changes only by a click on that
\* surface's toggle, each click flipping it (two clicks restore it); ticks,
\* send activations, responses and clicks on other surfaces' toggles leave
\* it unchanged.
C16_ToggleFlag == []C16_TwoValues /\ [][C16_FlagStep]_vars

C16_Witness ==
  \E s, t \in Surfaces :
    /\ surf[s].attr = "false" /\ surf[t].attr = "true"
    /\ \E a \in 1..Len(acts) : acts[a].surface = s /\ acts[a].phase = "done"
    /\ \E b \in 1..Len(acts) : acts[b].surface = t /\ acts[b].outcome = "spliced"
                               /\ acts[b].phase = "done"

\* The ids of the markers a piece of markup carries.
MarkersIn(html) ==
  {html[k + 1] : k \in {j \in 1..(Len(html) - 2) :
                          html[j] = "/track/" /\ html[j + 2] = ".png"}}

\* What a recording fetch of tid would do now: find the record and push.
FetchFinds(tid) ==
  /\ HasId(db, tid)
  /\ AfterFindOne(db, tid) = "updateOne"
  /\ UpdateOne(db, tid, OpenEvent(rev, Absent, clock)).modifiedCount = 1

\* C17: a marker is handed out only after its record exists: every
\* trackingId in an issuance response, and every marker spliced into a
\* body, identifies a stored record, so a recording fetch of an issued
\* marker finds its record.
C17_IssuedMarkersAreStored ==
  /\ \A a \in 1..Len(acts) :
       /\ HasField(acts[a].resp, "pixelHtml") =>
            /\ MarkersIn(acts[a].resp.data.pixelHtml) # {}
            /\ \A tid \in MarkersIn(acts[a].resp.data.pixelHtml) : FetchFinds(tid)
       /\ HasField(acts[a].resp, "trackingId") =>
            FetchFinds(acts[a].resp.data.trackingId)
  /\ \A s \in Surfaces :
       \A tid \in MarkersIn(surf[s].body) : FetchFinds(tid)

C17_Witness ==
  \E s \in Surfaces, a \in 1..Len(acts) :
    /\ acts[a].surface = s
    /\ acts[a].outcome = "spliced"
    /\ MarkersIn(surf[s].body) # {}
    /\ MarkersIn(surf[s].body) = MarkersIn(acts[a].resp.data.pixelHtml)

=============================================================================
